---- MODULE Spec2Model ----
(***************************************************************************)
(* The excerpt composition engine of crates/multi_buffer2: MultiBuffer     *)
(* keeps a SumTree of Excerpts, ordered by ExcerptKey, over several        *)
(* independently edited and renamed buffers.                               *)
(*                                                                         *)
(* A buffer is a row of character cells.  A cell is "live" (visible) or    *)
(* "dead" (deleted, a tombstone); the edits of the model are deletions.    *)
(* An anchor is attached to a cell side and keeps its place in the row     *)
(* whatever is edited: anchor 2c-1 is the start of cell c (bias Right),    *)
(* anchor 2c is the end of cell c (bias Left), 0 is Anchor::MIN and        *)
(* 2*Slots+1 is Anchor::MAX.  Anchors compare by that number; their offset *)
(* on a snapshot is the number of live cells before them.                  *)
(***************************************************************************)
EXTENDS Integers, Sequences, FiniteSets, TLC

\* ---- bounds ----
NumDocs == 2        \* buffers that exist
DocLen == 2         \* cells of the richest buffer's initial text
MaxPath == 2        \* file paths 1..MaxPath; 0 is "no file" (None)
MaxBatch == 2       \* pairs handed to one insert_excerpts call
MaxInserts == 2     \* insert_excerpts calls of a run that also renames or edits
MaxOps == 2         \* renames and edits of a run with every operation
MaxPlainInserts == 3 \* insert_excerpts calls of a run that only inserts
MaxRenames == 3     \* renames of a run that inserts, then renames
MaxKeyAnchor == 2   \* anchors 0..MaxKeyAnchor of the keys that are only compared
MaxSummaryLen == 2  \* text lengths 0..MaxSummaryLen of the summaries that are only added

Docs == 1..NumDocs
Paths == 0..MaxPath

\* Buffer 1 has DocLen characters; every other buffer has a single character.
Slots(d) == IF d = 1 THEN DocLen ELSE 1
InitCells(d) == [c \in 1..Slots(d) |-> "live"]

\* Buffer 1 starts with a file, the other buffers are untitled.
InitPath(d) == IF d = 1 THEN 1 ELSE 0

min_anchor == 0
max_anchor(d) == 2 * Slots(d) + 1
Anchors(d) == 0..max_anchor(d)

VARIABLES
    docs,             \* the buffers themselves: docs[d] = [path, cells]
    buffers,          \* MultiBuffer.buffers: the registered buffer ids
    buffer_snapshots, \* MultiBuffer.snapshot.buffer_snapshots: id -> [path, cells]
    excerpts,         \* MultiBuffer.snapshot.excerpts, in tree order
    inserted,         \* every (buffer, range) handed to insert_excerpts, kept merged
    status,           \* "ok", or the assertion that failed and ended the run
    ninserts,         \* insert_excerpts calls made
    nops,             \* renames, edits and snapshot calls made
    held,             \* the MultiBufferSnapshot a reader keeps, and what it read in it
    compared,         \* three ExcerptKeys and the Orderings ExcerptKey::cmp gave for them
    summed,           \* three ExcerptSummaries and the Sums add_summary made of them
    call              \* the call whose loops are followed pass by pass, or Idle

vars == <<docs, buffers, buffer_snapshots, excerpts, inserted, status, ninserts, nops, held,
          compared, summed, call>>

\* ---- language::Buffer / BufferSnapshot ----

\* Anchor::cmp: Less = -1, Equal = 0, Greater = 1.
anchor_cmp(a, b) == IF a < b THEN -1 ELSE IF a > b THEN 1 ELSE 0

\* Anchor::to_offset on a snapshot.
to_offset(a, snapshot) ==
    Cardinality({c \in DOMAIN snapshot.cells : snapshot.cells[c] = "live" /\ 2 * c <= a})

\* The characters of a snapshot: one number per live cell, in order.
Char(d, c) == 10 * d + c
RECURSIVE LiveText(_, _, _)
LiveText(d, cells, c) ==
    IF c > Len(cells) THEN <<>>
    ELSE (IF cells[c] = "live" THEN <<Char(d, c)>> ELSE <<>>) \o LiveText(d, cells, c + 1)

\* BufferSnapshot::text_for_range.
text_for_range(d, start, end, snapshot) ==
    SubSeq(LiveText(d, snapshot.cells, 1), to_offset(start, snapshot) + 1, to_offset(end, snapshot))

\* BufferSnapshot::text_summary_for_range(..).len
text_summary_for_range(start, end, snapshot) ==
    IF to_offset(end, snapshot) > to_offset(start, snapshot)
    THEN to_offset(end, snapshot) - to_offset(start, snapshot) ELSE 0

\* AnchorRangeExt::cmp: by start, and for equal starts the longer range first.
range_cmp(s1, e1, s2, e2) ==
    IF anchor_cmp(s1, s2) # 0 THEN anchor_cmp(s1, s2) ELSE anchor_cmp(e2, e1)

\* ---- ExcerptKey ----
Key(path, buffer_id, start, end) ==
    [path |-> path, buffer_id |-> buffer_id, start |-> start, end |-> end]

KeyOf(e) == Key(e.path, e.buffer_id, e.start, e.end)

\* A comparison by buffer id first, then by path.
id_then_path(a, b) ==
    IF a.buffer_id # b.buffer_id THEN (IF a.buffer_id < b.buffer_id THEN -1 ELSE 1)
    ELSE IF a.path # b.path THEN (IF a.path < b.path THEN -1 ELSE 1)
    ELSE range_cmp(a.start, a.end, b.start, b.end)

\* ExcerptKey::cmp
key_cmp(a, b) ==
    IF a.path # b.path THEN (IF a.path < b.path THEN -1 ELSE 1)
    ELSE IF a.buffer_id # b.buffer_id THEN (IF a.buffer_id < b.buffer_id THEN -1 ELSE 1)
    ELSE range_cmp(a.start, a.end, b.start, b.end)

\* The Orderings of three keys among themselves: a.cmp(b), b.cmp(a), b.cmp(c),
\* a.cmp(c) and a.cmp(a).
Orderings(a, b, c) ==
    [a |-> a, b |-> b, c |-> c,
     ab |-> key_cmp(a, b), ba |-> key_cmp(b, a), bc |-> key_cmp(b, c),
     ac |-> key_cmp(a, c), aa |-> key_cmp(a, a)]

\* ---- ExcerptSummary ----
\* Option<ExcerptKey>: None is the empty sequence, Some(key) the sequence of
\* the key.
None == <<>>
Some(key) == <<key>>

\* ExcerptSummary { max_key, text }, the text summary being its len.
ExcerptSummary(max_key, text_len) == [max_key |-> max_key, len |-> text_len]

\* Summary::zero: ExcerptSummary::default().
zero == ExcerptSummary(None, 0)

\* An add_summary that keeps the max_key it has.
keep_max_key(self, summary) == ExcerptSummary(self.max_key, self.len + summary.len)

\* ExcerptSummary::add_summary: self after self.add_summary(&summary).
add_summary(self, summary) == ExcerptSummary(summary.max_key, self.len + summary.len)

\* Dimension for Option<ExcerptKey>: zero, and self after add_summary(&summary).
key_dimension_zero == None
key_dimension_add(self, summary) == summary.max_key

\* Dimension for usize: zero, and self after add_summary(&summary).
len_dimension_zero == 0
len_dimension_add(self, summary) == self + summary.len

\* What add_summary makes of three summaries: the two groupings of a, b and
\* c, the summaries of the runs a; a, b; a, b, c built from zero, and zero
\* added on either side of a, in the summary and in the two dimensions.
Sums(a, b, c) ==
    [a |-> a, b |-> b, c |-> c,
     ab_c |-> add_summary(add_summary(a, b), c),
     a_bc |-> add_summary(a, add_summary(b, c)),
     run1 |-> add_summary(zero, a),
     run2 |-> add_summary(add_summary(zero, a), b),
     run3 |-> add_summary(add_summary(add_summary(zero, a), b), c),
     a_zero |-> add_summary(a, zero),
     zero_a |-> add_summary(zero, a),
     key_a_zero |-> key_dimension_add(key_dimension_add(key_dimension_zero, a), zero),
     key_zero_a |-> key_dimension_add(key_dimension_add(key_dimension_zero, zero), a),
     len_a_zero |-> len_dimension_add(len_dimension_add(len_dimension_zero, a), zero),
     len_zero_a |-> len_dimension_add(len_dimension_add(len_dimension_zero, zero), a)]

\* SeekTarget::cmp of an ExcerptKey against the cursor's Option<ExcerptKey>
\* position; position 0 stands for None.
seek_cmp(target, tree, pos) ==
    IF pos = 0 THEN 1 ELSE key_cmp(target, KeyOf(tree[pos]))

\* ---- Excerpt ----
\* Excerpt::show_header
show_header(e) == ~e.touches_previous /\ ~e.empty

\* Range<Anchor>::to_offset(snapshot).is_empty()
range_is_empty(start, end, snapshot) == to_offset(start, snapshot) >= to_offset(end, snapshot)

\* Item::summary(..).text.len: the length a tree node caches for the excerpt.
summary_len(e, snapshots) ==
    (IF show_header(e) THEN 1 ELSE 0)
        + text_summary_for_range(e.start, e.end, snapshots[e.buffer_id])

Excerpt(key, touches_previous, empty) ==
    [path |-> key.path, buffer_id |-> key.buffer_id, start |-> key.start, end |-> key.end,
     touches_previous |-> touches_previous, empty |-> empty, summary_len |-> 0]

\* SumTree::push / extend: the item's summary is computed when it enters the tree.
Push(tree, e, snapshots) ==
    Append(tree, [e EXCEPT !.summary_len = summary_len(e, snapshots)])

RECURSIVE Extend(_, _, _)
Extend(tree, items, snapshots) ==
    IF items = <<>> THEN tree
    ELSE Extend(Push(tree, Head(items), snapshots), Tail(items), snapshots)

\* An update_last whose closure leaves the last excerpt as it is.
update_nothing(tree, new_key, snapshots) == tree

\* An update_last whose closure extends the last excerpt whatever its buffer.
update_any(tree, new_key, snapshots) ==
    IF tree = <<>> THEN tree
    ELSE IF /\ anchor_cmp(tree[Len(tree)].end, new_key.start) >= 0
            /\ anchor_cmp(new_key.end, tree[Len(tree)].end) > 0
    THEN [tree EXCEPT ![Len(tree)].end = new_key.end]
    ELSE tree

\* SumTree::update_last with the closure of push_new_excerpt: the last excerpt
\* of the same buffer that reaches the new key's start absorbs it.  The summary
\* of the last item is recomputed whatever the closure did.
update_last(tree, new_key, snapshots) ==
    IF tree = <<>> THEN tree
    ELSE LET put(extended) ==
                 [tree EXCEPT ![Len(tree)] =
                     [extended EXCEPT !.summary_len = summary_len(extended, snapshots)]]
             closure(last) ==
                 IF /\ last.buffer_id = new_key.buffer_id
                    /\ anchor_cmp(last.end, new_key.start) >= 0
                    /\ anchor_cmp(new_key.end, last.end) > 0
                 THEN [last EXCEPT
                         !.end = new_key.end,
                         !.empty = range_is_empty(last.start, new_key.end,
                                                  snapshots[new_key.buffer_id])]
                 ELSE last
         IN put(closure(tree[Len(tree)]))

\* A push that never finds the last excerpt reaching the new key.
never_merged(tree, new_key) == FALSE

merged_with_previous(tree, new_key) ==
    /\ tree # <<>>
    /\ tree[Len(tree)].buffer_id = new_key.buffer_id
    /\ anchor_cmp(tree[Len(tree)].end, new_key.start) >= 0

\* A push that never notices that the new excerpt starts where the last ends.
never_touches(tree, new_key, snapshots) == FALSE

touches_previous(tree, new_key, snapshots) ==
    /\ tree # <<>>
    /\ tree[Len(tree)].buffer_id = new_key.buffer_id
    /\ anchor_cmp(tree[Len(tree)].end, new_key.start) < 0
    /\ to_offset(tree[Len(tree)].end, snapshots[new_key.buffer_id])
         = to_offset(new_key.start, snapshots[new_key.buffer_id])

push_new_excerpt(tree, new_key, snapshots) ==
    IF merged_with_previous(tree, new_key) THEN update_last(tree, new_key, snapshots)
    ELSE Push(update_last(tree, new_key, snapshots),
              Excerpt(new_key,
                      touches_previous(tree, new_key, snapshots),
                      range_is_empty(new_key.start, new_key.end,
                                     snapshots[new_key.buffer_id])),
              snapshots)

\* ---- sum_tree::Cursor over the dimension Option<ExcerptKey> ----
\* A cursor is the number of items before it.  Seeking moves it forward past
\* every item whose key is below the target (Bias::Left), or not above it
\* (Bias::Right).
\* A seek that also passes the items equal to the target, whatever the bias.
RECURSIVE seek_past(_, _, _, _)
seek_past(tree, pos, target, bias) ==
    IF pos < Len(tree) /\ key_cmp(target, KeyOf(tree[pos + 1])) >= 0
    THEN seek_past(tree, pos + 1, target, bias)
    ELSE pos

RECURSIVE seek_forward(_, _, _, _)
seek_forward(tree, pos, target, bias) ==
    IF pos < Len(tree)
       /\ \/ key_cmp(target, KeyOf(tree[pos + 1])) > 0
          \/ key_cmp(target, KeyOf(tree[pos + 1])) = 0 /\ bias = "Right"
    THEN seek_forward(tree, pos + 1, target, bias)
    ELSE pos

\* Cursor::seek_internal refuses a target that lies before the cursor.
seeks_backward(target, tree, pos) == seek_cmp(target, tree, pos) < 0

\* The items a cursor passes between two positions (Cursor::slice, suffix).
Slice(tree, from, to) == SubSeq(tree, from + 1, to)

\* ---- MultiBuffer::check_invariants ----
check_invariants(tree) ==
    \A i \in 2..Len(tree) :
        tree[i].buffer_id = tree[i - 1].buffer_id
            => anchor_cmp(tree[i - 1].end, tree[i].start) < 0

\* ---- MultiBuffer::insert_excerpts ----
\* A pair handed to insert_excerpts is <<buffer, start anchor, end anchor>>.
\* filter_map: the pairs whose end is after their start, keyed with the
\* buffer's current path and carrying the buffer's current snapshot.
\* A filter that lets every pair through.
retain_all(batch) == batch

Retained(batch) == {x \in batch : anchor_cmp(x[3], x[2]) > 0}

NewExcerpt(x, ds) ==
    [snapshot |-> ds[x[1]], key |-> Key(ds[x[1]].path, x[1], x[2], x[3])]

\* A sort with the comparison turned round.
RECURSIVE sort_descending(_)
sort_descending(news) ==
    IF news = {} THEN <<>>
    ELSE LET first == CHOOSE x \in news : \A y \in news : key_cmp(x.key, y.key) >= 0
         IN <<first>> \o sort_descending(news \ {first})

\* sort_unstable_by(|a, b| a.key.cmp(&b.key, ..))
RECURSIVE sort_by_key(_)
sort_by_key(news) ==
    IF news = {} THEN <<>>
    ELSE LET first == CHOOSE x \in news : \A y \in news : key_cmp(x.key, y.key) <= 0
         IN <<first>> \o sort_by_key(news \ {first})

\* A dedup_by closure that does not ask which buffer the two elements are of.
any_bucket(a, b) ==
    /\ anchor_cmp(a.key.end, b.key.start) >= 0
    /\ anchor_cmp(a.key.start, b.key.end) <= 0

\* The closure of dedup_by: a is the element under test, b the last one kept.
same_bucket(a, b) ==
    /\ a.key.buffer_id = b.key.buffer_id
    /\ anchor_cmp(a.key.end, b.key.start) >= 0
    /\ anchor_cmp(a.key.start, b.key.end) <= 0

\* A merge that keeps the range of the element kept so far.
absorb_nothing(a, b) == b

absorb(a, b) ==
    [b EXCEPT
        !.key.start = IF anchor_cmp(a.key.start, b.key.start) < 0 THEN a.key.start ELSE @,
        !.key.end = IF anchor_cmp(a.key.end, b.key.end) > 0 THEN a.key.end ELSE @]

RECURSIVE dedup_by(_, _)
dedup_by(kept, rest) ==
    IF rest = <<>> THEN kept
    ELSE IF kept # <<>> /\ same_bucket(Head(rest), kept[Len(kept)])
    THEN dedup_by([kept EXCEPT ![Len(kept)] = absorb(Head(rest), kept[Len(kept)])],
                  Tail(rest))
    ELSE dedup_by(Append(kept, Head(rest)), Tail(rest))

\* One pass of the `while let Some(new_excerpt)` loop.  c is the cursor over the
\* old tree and the tree being built: [pos, tree, ok].  The steps of the pass,
\* last one first:
\*   stitched: cursor.item() that starts at the offset where the new excerpt
\*             ends is pushed with touches_previous set, and the cursor moves on;
\*   repushed: cursor.prev_item() of the same buffer is pushed again;
\*   sought:   cursor.seek_forward(end..end, Bias::Right);
\*   pushed:   push_new_excerpt of the new key, after the slice;
\*   the slice cursor.slice(&new_excerpt.key, Bias::Right) is taken only when
\*   the key is after the cursor.
insert_one(old, snapshots, new, c) ==
    LET target == Key(new.key.path, new.key.buffer_id, new.key.end, new.key.end)
        stitched(pos2, tree3) ==
            IF /\ pos2 < Len(old)
               /\ old[pos2 + 1].buffer_id = new.key.buffer_id
               /\ to_offset(new.key.end, new.snapshot)
                    = to_offset(old[pos2 + 1].start, new.snapshot)
            THEN [pos |-> pos2 + 1,
                  tree |-> Push(tree3,
                                Excerpt(KeyOf(old[pos2 + 1]), TRUE, old[pos2 + 1].empty),
                                snapshots),
                  ok |-> TRUE]
            ELSE [pos |-> pos2, tree |-> tree3, ok |-> TRUE]
        repushed(pos2, tree2) ==
            stitched(pos2,
                     IF pos2 > 0 /\ old[pos2].buffer_id = new.key.buffer_id
                     THEN push_new_excerpt(tree2, KeyOf(old[pos2]), snapshots)
                     ELSE tree2)
        sought(pos1, tree2) ==
            IF seeks_backward(target, old, pos1)
            THEN [pos |-> pos1, tree |-> tree2, ok |-> FALSE]
            ELSE repushed(seek_forward(old, pos1, target, "Right"), tree2)
        pushed(pos1) ==
            sought(pos1, push_new_excerpt(c.tree \o Slice(old, c.pos, pos1), new.key, snapshots))
    IN pushed(IF seek_cmp(new.key, old, c.pos) > 0
              THEN seek_forward(old, c.pos, new.key, "Right") ELSE c.pos)

RECURSIVE insert_loop(_, _, _, _)
insert_loop(old, snapshots, news, c) ==
    IF news = <<>> \/ ~c.ok THEN c
    ELSE insert_loop(old, snapshots, Tail(news), insert_one(old, snapshots, Head(news), c))

\* ---- MultiBuffer::apply_renames ----
\* The cursor moves past the excerpts of one buffer (`while let Some(excerpt)`).
RECURSIVE skip_buffer(_, _, _)
skip_buffer(tree, pos, buffer_id) ==
    IF pos < Len(tree) /\ tree[pos + 1].buffer_id = buffer_id
    THEN skip_buffer(tree, pos + 1, buffer_id)
    ELSE pos

\* A rename that moves the excerpts with their old path.
keep_path(items, new_path) == items

rekey(items, new_path) ==
    [i \in 1..Len(items) |-> [items[i] EXCEPT !.path = new_path]]

\* First loop: the renamed excerpts leave the tree.  c = [pos, tree, renamed, ok];
\* renamed is the BTreeMap, a set of [new_path, buffer_id, items].  The cursor
\* slices to the old key (sliced), then passes the buffer's excerpts (taken).
remove_one(old, rename, c) ==
    LET target == Key(rename.old_path, rename.buffer_id, min_anchor,
                      max_anchor(rename.buffer_id))
        taken(pos1, pos2) ==
            [pos |-> pos2,
             tree |-> c.tree \o Slice(old, c.pos, pos1),
             renamed |-> IF pos2 > pos1
                         THEN c.renamed \cup
                                {[new_path |-> rename.new_path,
                                  buffer_id |-> rename.buffer_id,
                                  items |-> rekey(Slice(old, pos1, pos2), rename.new_path)]}
                         ELSE c.renamed,
             ok |-> TRUE]
        sliced(pos1) == taken(pos1, skip_buffer(old, pos1, rename.buffer_id))
    IN IF seeks_backward(target, old, c.pos) THEN [c EXCEPT !.ok = FALSE]
       ELSE sliced(seek_forward(old, c.pos, target, "Left"))

RECURSIVE remove_renamed(_, _, _)
remove_renamed(old, renames, c) ==
    IF renames = <<>> \/ ~c.ok THEN c
    ELSE remove_renamed(old, Tail(renames), remove_one(old, Head(renames), c))

\* Iteration order of the BTreeMap: by (new_path, buffer_id).
RECURSIVE renamed_in_order(_)
renamed_in_order(groups) ==
    IF groups = {} THEN <<>>
    ELSE LET first == CHOOSE g \in groups : \A h \in groups :
                          \/ g.new_path < h.new_path
                          \/ g.new_path = h.new_path /\ g.buffer_id <= h.buffer_id
         IN <<first>> \o renamed_in_order(groups \ {first})

\* Second loop: each group enters the tree where its new key sorts.
RECURSIVE reinsert_renamed(_, _, _, _)
reinsert_renamed(old, snapshots, groups, c) ==
    IF groups = <<>> \/ ~c.ok THEN c
    ELSE LET g == Head(groups)
             target == Key(g.new_path, g.buffer_id, min_anchor, max_anchor(g.buffer_id))
             placed(pos1) ==
                 [pos |-> pos1,
                  tree |-> Extend(c.tree \o Slice(old, c.pos, pos1), g.items, snapshots),
                  ok |-> TRUE]
         IN reinsert_renamed(old, snapshots, Tail(groups),
               IF seeks_backward(target, old, c.pos) THEN [c EXCEPT !.ok = FALSE]
               ELSE placed(seek_forward(old, c.pos, target, "Left")))

\* An apply_renames that returns after its first loop, with the tree the
\* renamed excerpts have left.
removal_only(tree, snapshots, renames) ==
    LET left(removed) ==
            [tree |-> IF removed.ok THEN removed.tree \o Slice(tree, removed.pos, Len(tree))
                      ELSE tree,
             ok |-> removed.ok]
    IN left(remove_renamed(tree, renames,
                           [pos |-> 0, tree |-> <<>>, renamed |-> {}, ok |-> TRUE]))

\* An apply_renames that never appends what the cursor has not passed.
forget_suffix(tree, snapshots, renames) == [tree |-> <<>>, ok |-> TRUE]

\* The tree after apply_renames: [tree, ok].  The tree is only replaced by a
\* loop that ran to its end: removed is the cursor after the first loop, tree1
\* the tree it leaves, put the cursor after the second loop.
apply_renames(tree, snapshots, renames) ==
    LET reinserted(tree1, put) ==
            IF ~put.ok THEN [tree |-> tree1, ok |-> FALSE]
            ELSE [tree |-> put.tree \o Slice(tree1, put.pos, Len(tree1)), ok |-> TRUE]
        emptied(removed, tree1) ==
            reinserted(tree1,
                       reinsert_renamed(tree1, snapshots, renamed_in_order(removed.renamed),
                                        [pos |-> 0, tree |-> <<>>, ok |-> TRUE]))
        walked(removed) ==
            IF ~removed.ok THEN [tree |-> tree, ok |-> FALSE]
            ELSE emptied(removed, removed.tree \o Slice(tree, removed.pos, Len(tree)))
    IN walked(remove_renamed(tree, renames,
                             [pos |-> 0, tree |-> <<>>, renamed |-> {}, ok |-> TRUE]))

\* An apply_edits that drops the excerpts of every edited buffer.
drop_edited(tree, edits) ==
    SelectSeq(tree, LAMBDA e : \A x \in edits : x[2] # e.buffer_id)

\* ---- MultiBuffer::apply_edits ----
\* The body is commented out: the queued edits change nothing.
apply_edits(tree, edits) == tree

\* ---- MultiBuffer::sync ----
\* The engine is m = [excerpts, buffer_snapshots, buffers, status]; ds is the state
\* of the buffers it reads.
RECURSIVE renames_of(_, _, _)
renames_of(snapshots, ds, d) ==
    IF d > NumDocs THEN <<>>
    ELSE (IF d \in DOMAIN snapshots /\ ds[d].path # snapshots[d].path
          THEN <<[buffer_id |-> d, old_path |-> snapshots[d].path, new_path |-> ds[d].path]>>
          ELSE <<>>) \o renames_of(snapshots, ds, d + 1)

\* The edits of new_snapshot.edits_since(old_snapshot.version): the cells that
\* changed, tagged with the buffer and its new path.
edits_of(snapshots, ds) ==
    {e \in Paths \X Docs \X (1..DocLen) :
        /\ e[2] \in DOMAIN snapshots
        /\ e[3] \in 1..Slots(e[2])
        /\ e[1] = ds[e[2]].path
        /\ ds[e[2]].cells[e[3]] # snapshots[e[2]].cells[e[3]]}

\* How an operation ends: it returns, or one of its two assertions fails.
Outcome(seeks_ok, tree) ==
    IF ~seeks_ok THEN "cannot seek backward"
    ELSE IF ~check_invariants(tree) THEN "overlapping excerpt ranges"
    ELSE "ok"

\* A sync that leaves the engine as it finds it.
no_sync(m, ds) == m

sync(m, ds) ==
    LET snapshots == [d \in DOMAIN m.buffer_snapshots |-> ds[d]]
        checked(seeks_ok, tree) ==
            [excerpts |-> tree,
             buffer_snapshots |-> snapshots,
             buffers |-> m.buffers,
             status |-> Outcome(seeks_ok, tree)]
        renamed(r) == checked(r.ok, apply_edits(r.tree, edits_of(m.buffer_snapshots, ds)))
    IN renamed(apply_renames(m.excerpts, snapshots, renames_of(m.buffer_snapshots, ds, 1)))

\* ---- MultiBuffer::insert_excerpts, whole ----
\* A registration that keeps no handle.
keep_buffers(registered, ids) == registered

\* self.buffers.insert(buffer_id, buffer_handle), for every retained pair.
insert_buffers(registered, ids) == registered \cup ids

\* The steps of the call, last one first:
\*   replaced:   the new tree is assigned and check_invariants runs;
\*   rebuilt:    the suffix of the old tree follows what the loop built;
\*   registered: the loop runs over the sorted, merged new excerpts, with the
\*               snapshots of the buffers the call registers;
\*   synced:     self.sync(cx) comes first.
insert_excerpts(m, batch, ds) ==
    LET ids == {x[1] : x \in Retained(batch)}
        news == dedup_by(<<>>, sort_by_key({NewExcerpt(x, ds) : x \in Retained(batch)}))
        replaced(s, snapshots, seeks_ok, tree) ==
            [excerpts |-> tree, buffer_snapshots |-> snapshots,
             buffers |-> insert_buffers(s.buffers, ids), status |-> Outcome(seeks_ok, tree)]
        rebuilt(s, snapshots, c) ==
            replaced(s, snapshots, c.ok,
                     IF c.ok THEN c.tree \o Slice(s.excerpts, c.pos, Len(s.excerpts))
                     ELSE s.excerpts)
        registered(s, snapshots) ==
            rebuilt(s, snapshots,
                    insert_loop(s.excerpts, snapshots, news,
                                [pos |-> 0, tree |-> <<>>, ok |-> TRUE]))
        synced(s) ==
            IF s.status # "ok" THEN s
            ELSE registered(s, [d \in DOMAIN s.buffer_snapshots \cup (ids \ s.buffers) |->
                                  IF d \in s.buffers /\ d \in DOMAIN s.buffer_snapshots
                                  THEN s.buffer_snapshots[d] ELSE ds[d]])
    IN synced(sync(m, ds))

\* ---- MultiBufferSnapshot ----
RECURSIVE text_from(_, _, _)
text_from(tree, snapshots, i) ==
    IF i > Len(tree) THEN <<>>
    ELSE (IF show_header(tree[i]) THEN <<0>> ELSE <<>>)
         \o text_for_range(tree[i].buffer_id, tree[i].start, tree[i].end,
                           snapshots[tree[i].buffer_id])
         \o text_from(tree, snapshots, i + 1)

\* MultiBufferSnapshot::text; the separator '\n' is the character 0.
text(m) == text_from(m.excerpts, m.buffer_snapshots, 1)

RECURSIVE sum_len(_, _)
sum_len(tree, i) == IF i > Len(tree) THEN 0 ELSE tree[i].summary_len + sum_len(tree, i + 1)

\* MultiBufferSnapshot::len: the text length of the tree's cached summary.
len(m) == sum_len(m.excerpts, 1)

\* ---- the reference computation of tests::test_random_multibuffer ----
\* expected_excerpts.sort_by: by the buffer's current path, its id, the range.
RECURSIVE expected_sort(_, _)
expected_sort(ranges, ds) ==
    IF ranges = {} THEN <<>>
    ELSE LET first == CHOOSE x \in ranges : \A y \in ranges :
                          key_cmp(Key(ds[x[1]].path, x[1], x[2], x[3]),
                                  Key(ds[y[1]].path, y[1], y[2], y[3])) <= 0
         IN <<first>> \o expected_sort(ranges \ {first}, ds)

\* expected_excerpts.dedup_by: a is the element under test, b the last one kept.
RECURSIVE expected_dedup(_, _)
expected_dedup(kept, rest) ==
    IF rest = <<>> THEN kept
    ELSE LET a == Head(rest)
             b == IF kept = <<>> THEN a ELSE kept[Len(kept)]
         IN IF /\ kept # <<>>
               /\ a[1] = b[1]
               /\ anchor_cmp(a[2], b[3]) <= 0
               /\ anchor_cmp(b[2], a[3]) <= 0
            THEN expected_dedup(
                    [kept EXCEPT ![Len(kept)] =
                        <<b[1], IF a[2] < b[2] THEN a[2] ELSE b[2],
                                IF a[3] > b[3] THEN a[3] ELSE b[3]>>],
                    Tail(rest))
            ELSE expected_dedup(Append(kept, a), Tail(rest))

expected_excerpts(ranges, ds) ==
    expected_dedup(<<>>, expected_sort({x \in ranges : anchor_cmp(x[3], x[2]) > 0}, ds))

\* The loop that builds expected_text; prev is the previous (buffer, offsets),
\* <<0, 0, 0>> for None.
RECURSIVE expected_from(_, _, _, _)
expected_from(list, ds, i, prev) ==
    IF i > Len(list) THEN <<>>
    ELSE LET d == list[i][1]
             from == to_offset(list[i][2], ds[d])
             to == to_offset(list[i][3], ds[d])
             header == \/ prev[1] # d
                       \/ prev[2] >= prev[3]
                       \/ from > prev[3]
         IN (IF from < to
             THEN (IF header THEN <<0>> ELSE <<>>)
                  \o text_for_range(d, list[i][2], list[i][3], ds[d])
             ELSE <<>>)
            \o expected_from(list, ds, i + 1, <<d, from, to>>)

expected_text(ranges, ds) == expected_from(expected_excerpts(ranges, ds), ds, 1, <<0, 0, 0>>)

\* ---- the state machine ----
Engine ==
    [excerpts |-> excerpts, buffer_snapshots |-> buffer_snapshots,
     buffers |-> buffers, status |-> status]

\* self.snapshot.clone(): the MultiBufferSnapshot of an engine, as a value of
\* its own.
clone(m) == [excerpts |-> m.excerpts, buffer_snapshots |-> m.buffer_snapshots]

\* A reader that looks at the snapshot the engine is working on.
writer_view(h) == clone(Engine)

\* What a reader finds in the snapshot it was handed: the clone.
reader_view(h) == h.snapshot

\* The pairs a call can be handed: every range whose end is after its start
\* (a caller may hold anchors of deleted characters), and per buffer one empty
\* range and one inverted range.
Pairs == {x \in Docs \X (0..(2 * DocLen + 1)) \X (0..(2 * DocLen + 1)) :
             /\ x[2] \in Anchors(x[1])
             /\ x[3] \in Anchors(x[1])
             /\ \/ x[2] < x[3]
                \/ x[2] = min_anchor /\ x[3] = min_anchor
                \/ x[2] = max_anchor(x[1]) /\ x[3] = min_anchor}

RECURSIVE BatchesUpTo(_)
BatchesUpTo(n) ==
    IF n = 0 THEN {{}}
    ELSE {b \cup {x} : b \in BatchesUpTo(n - 1), x \in Pairs}

Batches == BatchesUpTo(MaxBatch)

\* No call is being followed: the cursors are where a call finds them.
Idle ==
    [op |-> "idle", batch |-> {}, snapshots |-> << >>, all_news |-> <<>>, news |-> <<>>,
     c |-> [pos |-> 0, tree |-> <<>>, ok |-> TRUE], cursors |-> <<>>,
     renames |-> <<>>, taking |-> FALSE, from |-> 0,
     r |-> [pos |-> 0, tree |-> <<>>, renamed |-> {}, ok |-> TRUE]]

Init ==
    /\ docs = [d \in Docs |-> [path |-> InitPath(d), cells |-> InitCells(d)]]
    /\ buffers = {}
    /\ buffer_snapshots = << >>
    /\ excerpts = << >>
    /\ inserted = {}
    /\ status = "ok"
    /\ ninserts = 0
    /\ nops = 0
    /\ held = [taken |-> FALSE, snapshot |-> clone(Engine), text |-> <<>>, len |-> 0]
    /\ compared = Orderings(Key(0, 1, 0, 0), Key(0, 1, 0, 0), Key(0, 1, 0, 0))
    /\ summed = Sums(zero, zero, zero)
    /\ call = Idle

\* A read that resets the path of every buffer it looks at.
read_and_reset(ds) == [d \in DOMAIN ds |-> [ds[d] EXCEPT !.path = 0]]

\* buffer_handle.read(cx), self.buffers[buffer_id].read(cx): the engine borrows
\* the buffers to read them, which leaves them as they are.
read(ds) == ds

Become(m) ==
    /\ excerpts' = m.excerpts
    /\ buffer_snapshots' = m.buffer_snapshots
    /\ buffers' = m.buffers
    /\ status' = m.status

\* multibuffer.insert_excerpts(batch, cx)
DoInsert(batch) ==
    /\ status = "ok"
    /\ Become(insert_excerpts(Engine, batch, docs))
    /\ inserted' = LET merged == expected_excerpts(inserted \cup batch, docs)
                   IN {merged[i] : i \in 1..Len(merged)}
    /\ ninserts' = ninserts + 1
    /\ docs' = read(docs)
    /\ UNCHANGED <<nops, held, compared, summed>>

\* multibuffer.snapshot(cx)
Snapshot ==
    /\ status = "ok"
    /\ Become(sync(Engine, docs))
    /\ docs' = read(docs)
    /\ UNCHANGED <<inserted, ninserts, nops, held, compared, summed, call>>

\* let snapshot = multibuffer.snapshot(cx), kept by a reader.  The value the
\* reader had before is dropped; a call that panics returns nothing.
SnapshotHeld ==
    /\ status = "ok"
    /\ Become(sync(Engine, docs))
    /\ held' = IF sync(Engine, docs).status = "ok"
               THEN [taken |-> TRUE,
                     snapshot |-> clone(sync(Engine, docs)),
                     text |-> text(sync(Engine, docs)),
                     len |-> len(sync(Engine, docs))]
               ELSE held
    /\ docs' = read(docs)
    /\ UNCHANGED <<inserted, ninserts, nops, compared, summed, call>>

\* buffer.file_updated(file, cx): the buffer gets another path.
DoRename(d, p) ==
    /\ status = "ok"
    /\ p # docs[d].path
    /\ docs' = [docs EXCEPT ![d].path = p]
    /\ nops' = nops + 1
    /\ UNCHANGED <<buffers, buffer_snapshots, excerpts, inserted, status, ninserts, held,
                   compared, summed, call>>

\* buffer.edit(..): a character is deleted.
DoEdit(d, c) ==
    /\ status = "ok"
    /\ c \in 1..Slots(d)
    /\ docs[d].cells[c] = "live"
    /\ docs' = [docs EXCEPT ![d].cells[c] = "dead"]
    /\ nops' = nops + 1
    /\ UNCHANGED <<buffers, buffer_snapshots, excerpts, inserted, status, ninserts, held,
                   compared, summed, call>>

\* Every operation, interleaved.  Once a buffer has been renamed or edited a
\* call inserts one pair, and only while one such change has been made.
InsertExcerpts(batch) ==
    /\ ninserts < MaxInserts
    /\ nops < MaxOps
    /\ nops > 0 => Cardinality(batch) = 1
    /\ DoInsert(batch)
    /\ UNCHANGED call

Rename(d, p) == nops < MaxOps /\ DoRename(d, p)

Edit(d, c) == nops < MaxOps /\ DoEdit(d, c)

Next ==
    \/ \E batch \in Batches : InsertExcerpts(batch)
    \/ Snapshot
    \/ \E d \in Docs, p \in 1..MaxPath : Rename(d, p)
    \/ \E d \in Docs, c \in 1..DocLen : Edit(d, c)

Spec == Init /\ [][Next]_vars

\* Insertions alone.
InsertOnly(batch) == ninserts < MaxPlainInserts /\ DoInsert(batch) /\ UNCHANGED call

NextInserts == \E batch \in Batches : InsertOnly(batch)

SpecInserts == Init /\ [][NextInserts]_vars

\* Insertions, then renames and snapshots.
InsertFirst(batch) ==
    ninserts < MaxInserts /\ nops = 0 /\ DoInsert(batch) /\ UNCHANGED call

RenameMore(d, p) == nops < MaxRenames /\ DoRename(d, p)

NextRenames ==
    \/ \E batch \in Batches : InsertFirst(batch)
    \/ Snapshot
    \/ \E d \in Docs, p \in 1..MaxPath : RenameMore(d, p)

SpecRenames == Init /\ [][NextRenames]_vars

\* Every operation, with a reader that keeps what snapshot() returned.
NextReaders ==
    \/ \E batch \in Batches : InsertExcerpts(batch)
    \/ SnapshotHeld
    \/ \E d \in Docs, p \in 1..MaxPath : Rename(d, p)
    \/ \E d \in Docs, c \in 1..DocLen : Edit(d, c)

SpecReaders == Init /\ [][NextReaders]_vars

\* ExcerptKey::cmp alone: the keys over every path, buffer and range of the
\* anchors 0..MaxKeyAnchor, the empty ranges that are sought among them.
Keys == {Key(p, d, r[1], r[2]) :
            p \in Paths, d \in Docs,
            r \in {q \in (0..MaxKeyAnchor) \X (0..MaxKeyAnchor) : q[1] <= q[2]}}

Compare(a, b, c) ==
    /\ compared' = Orderings(a, b, c)
    /\ UNCHANGED <<docs, buffers, buffer_snapshots, excerpts, inserted, status, ninserts, nops,
                   held, summed, call>>

\* One comparison of three drawn keys in a run.
NextKeys ==
    /\ compared = Orderings(Key(0, 1, 0, 0), Key(0, 1, 0, 0), Key(0, 1, 0, 0))
    /\ \E a \in Keys, b \in Keys, c \in Keys : Compare(a, b, c)

SpecKeys == Init /\ [][NextKeys]_vars

\* ExcerptSummary::add_summary alone: the summaries with no key or a key that
\* ends at MaxKeyAnchor, and a text of up to MaxSummaryLen characters.
Summaries ==
    {ExcerptSummary(k, n) :
        k \in {None} \cup {Some(key) : key \in {q \in Keys : q.end = MaxKeyAnchor}},
        n \in 0..MaxSummaryLen}

Add(a, b, c) ==
    /\ summed' = Sums(a, b, c)
    /\ UNCHANGED <<docs, buffers, buffer_snapshots, excerpts, inserted, status, ninserts, nops,
                   held, compared, call>>

\* One sum of three drawn summaries in a run.
NextSummaries ==
    /\ summed = Sums(zero, zero, zero)
    /\ \E a \in Summaries, b \in Summaries, c \in Summaries : Add(a, b, c)

SpecSummaries == Init /\ [][NextSummaries]_vars

TypeOK ==
    /\ status \in {"ok", "cannot seek backward", "overlapping excerpt ranges"}
    /\ buffers \subseteq Docs
    /\ DOMAIN buffer_snapshots = buffers

\* ---- what the properties below read ----
\* An excerpt as the tree orders and flags it, without the cached summary.
Strip(e) ==
    [path |-> e.path, buffer_id |-> e.buffer_id, start |-> e.start, end |-> e.end,
     touches_previous |-> e.touches_previous, empty |-> e.empty]

StripAll(tree) == [i \in 1..Len(tree) |-> Strip(tree[i])]

\* The excerpts of one buffer, in tree order.
OfDoc(tree, d) == SelectSeq(StripAll(tree), LAMBDA e : e.buffer_id = d)

WithPath(items, p) == [i \in 1..Len(items) |-> [items[i] EXCEPT !.path = p]]

\* The anchor ranges of the excerpts of one buffer.
Ranges(tree, d) ==
    {<<tree[i].start, tree[i].end>> : i \in {j \in 1..Len(tree) : tree[j].buffer_id = d}}

\* A pair and a range share at least one anchor.
Touching(x, r) == r[1] <= x[3] /\ x[2] <= r[2]

\* The anchors of buffer d inside an excerpt, and inside a retained pair.
Covered(tree, d) == {a \in Anchors(d) : \E r \in Ranges(tree, d) : r[1] <= a /\ a <= r[2]}

CoveredBy(batch, d) ==
    {a \in Anchors(d) : \E x \in Retained(batch) : x[1] = d /\ x[2] <= a /\ a <= x[3]}

Ascending(tree) ==
    \A i \in 1..(Len(tree) - 1) : key_cmp(KeyOf(tree[i]), KeyOf(tree[i + 1])) < 0

Singles == {{x} : x \in Pairs}
Valid == {x \in Pairs : x[2] < x[3]}
NoEdits == \A d \in Docs : docs[d].cells = InitCells(d)
PendingRenames == {d \in buffers : buffer_snapshots[d].path # docs[d].path}
Least(S) == CHOOSE a \in S : \A b \in S : a <= b
Greatest(S) == CHOOSE a \in S : \A b \in S : a >= b

\* ---- C1 ----
\* C1: in every state reached by insert_excerpts calls, renames, edits and
\* snapshot() calls, the excerpts of the tree are in strictly ascending
\* ExcerptKey order (path, then buffer id, then anchor range).
AscendingKeys == Ascending(excerpts)

\* Both buffers have excerpts, one of them under a path a rename gave it.
RenamedGroupInOrder ==
    /\ status = "ok"
    /\ Len(excerpts) >= 3
    /\ \A d \in Docs : Ranges(excerpts, d) # {}
    /\ \E i \in 1..Len(excerpts) : excerpts[i].path # InitPath(excerpts[i].buffer_id)

\* ---- C2 ----
\* C2: the assertion of check_invariants never fails, and of any two excerpts
\* of one buffer the earlier one ends strictly before the later one starts: no
\* two of them overlap or share a boundary anchor.
NoOverlap ==
    /\ status # "overlapping excerpt ranges"
    /\ \A i, j \in 1..Len(excerpts) :
          (i < j /\ excerpts[i].buffer_id = excerpts[j].buffer_id)
              => anchor_cmp(excerpts[i].end, excerpts[j].start) < 0

\* Two calls have left two excerpts of one buffer side by side, the second
\* starting at the offset where the first ends.
TouchingExcerptsKept ==
    /\ ninserts >= 2
    /\ \E i \in 2..Len(excerpts) :
          /\ excerpts[i].buffer_id = excerpts[i - 1].buffer_id
          /\ excerpts[i].touches_previous
          /\ ~excerpts[i].empty

\* ---- C3 ----
\* C3: while the buffers are only inserted and renamed, a snapshot() that is
\* taken after every step finds at most one renamed buffer and returns, and the
\* text of every snapshot() that returns is the text of the reference
\* computation over all the ranges inserted so far.
TextMatchesReference ==
    (status = "ok" /\ NoEdits) =>
        LET m == sync(Engine, docs)
        IN /\ Cardinality(PendingRenames) <= 1 => m.status = "ok"
           /\ m.status = "ok" => text(m) = expected_text(inserted, docs)

\* A renamed buffer has been synchronized and both buffers show text.
ComposedAfterRename ==
    /\ status = "ok"
    /\ NoEdits
    /\ PendingRenames = {}
    /\ \E i \in 1..Len(excerpts) : excerpts[i].path # InitPath(excerpts[i].buffer_id)
    /\ Len(text(Engine)) >= 4
    /\ text(Engine) = expected_text(inserted, docs)

\* ---- C4 ----
\* C4: a sync that finds two or more renamed buffers returns, and afterwards
\* every excerpt is keyed with the current path of its buffer, every buffer has
\* the excerpts it had, and the tree is in ascending key order.
RenamesApplied ==
    (status = "ok" /\ Cardinality(PendingRenames) >= 2) =>
        LET m == sync(Engine, docs)
        IN /\ m.status = "ok"
           /\ \A d \in Docs : OfDoc(m.excerpts, d) = WithPath(OfDoc(excerpts, d), docs[d].path)
           /\ Len(m.excerpts) = Len(excerpts)
           /\ Ascending(m.excerpts)

\* ---- C5 ----
\* The engine holds exactly one excerpt of buffer d that reaches from lo to
\* hi or beyond, and it is lo..hi itself when nothing else was there (alone).
Coalesced(m, d, lo, hi, alone, n) ==
    /\ m.status = "ok"
    /\ Cardinality({r \in Ranges(m.excerpts, d) : Touching(<<d, lo, hi>>, r)}) = 1
    /\ \E r \in Ranges(m.excerpts, d) : r[1] <= lo /\ hi <= r[2]
    /\ alone => /\ <<lo, hi>> \in Ranges(m.excerpts, d)
                /\ Cardinality(Ranges(m.excerpts, d)) = n + 1

\* C5: two ranges of one buffer that share an anchor, inserted in one batch or
\* one call after the other in either order, end up in one excerpt, which is
\* their union (least start, greatest end) when no older excerpt reaches them.
CoalescesOverlapping ==
    status = "ok" =>
        \A x \in Valid, y \in Valid :
            (x[1] = y[1] /\ x # y /\ Touching(x, <<y[2], y[3]>>)) =>
                LET d == x[1]
                    lo == Least({x[2], y[2]})
                    hi == Greatest({x[3], y[3]})
                    alone == \A r \in Ranges(excerpts, d) : ~Touching(<<d, lo, hi>>, r)
                    n == Cardinality(Ranges(excerpts, d))
                IN /\ Coalesced(insert_excerpts(Engine, {x, y}, docs), d, lo, hi, alone, n)
                   /\ Coalesced(insert_excerpts(insert_excerpts(Engine, {x}, docs), {y}, docs),
                                d, lo, hi, alone, n)

\* Other excerpts exist, and two ranges that overlap without one containing
\* the other, the later one inserted first, come out as one excerpt.
OverlappingPairCoalesced ==
    /\ status = "ok"
    /\ excerpts # <<>>
    /\ \E x \in Valid, y \in Valid :
          /\ x[1] = y[1] /\ x[2] < y[2] /\ y[2] <= x[3] /\ x[3] < y[3]
          /\ Ranges(excerpts, x[1]) = {}
          /\ Ranges(insert_excerpts(insert_excerpts(Engine, {y}, docs), {x}, docs).excerpts, x[1])
                = {<<x[2], y[3]>>}

\* ---- C6 ----
\* C6: in every state and for every pair, a second insert_excerpts call with
\* the pair leaves the excerpts (keys and flags) and the text as the first
\* call left them.
InsertIdempotent ==
    status = "ok" =>
        \A b \in Singles :
            LET m1 == insert_excerpts(Engine, b, docs)
                m2 == insert_excerpts(m1, b, docs)
            IN m1.status = "ok" =>
                  /\ m2.status = "ok"
                  /\ StripAll(m2.excerpts) = StripAll(m1.excerpts)
                  /\ text(m2) = text(m1)

\* After a rename or an edit, a first call that changes the tree and a second
\* one that does not.
SecondInsertChangesNothing ==
    /\ status = "ok"
    /\ nops >= 1
    /\ excerpts # <<>>
    /\ \E b \in Singles :
          LET m1 == insert_excerpts(Engine, b, docs)
          IN /\ m1.status = "ok"
             /\ Len(m1.excerpts) # Len(excerpts)
             /\ StripAll(insert_excerpts(m1, b, docs).excerpts) = StripAll(m1.excerpts)

\* ---- C7 ----
\* C7: a sync that finds one renamed buffer returns; the excerpts of that
\* buffer keep their ranges, order, flags and number and carry the new path,
\* and the excerpts of every other buffer are as they were.
RenameKeepsExcerpts ==
    (status = "ok" /\ Cardinality(PendingRenames) = 1) =>
        LET m == sync(Engine, docs)
            d == CHOOSE r \in PendingRenames : TRUE
        IN /\ m.status = "ok"
           /\ Len(m.excerpts) = Len(excerpts)
           /\ OfDoc(m.excerpts, d) = WithPath(OfDoc(excerpts, d), docs[d].path)
           /\ \A o \in Docs \ {d} : OfDoc(m.excerpts, o) = OfDoc(excerpts, o)

\* The renamed buffer has two excerpts and the sync moves them to the other
\* side of the other buffer's excerpts.
RenameMovesGroup ==
    /\ status = "ok"
    /\ Cardinality(PendingRenames) = 1
    /\ \E d \in PendingRenames : Len(OfDoc(excerpts, d)) >= 2
    /\ LET m == sync(Engine, docs)
       IN /\ m.status = "ok"
          /\ m.excerpts[1].buffer_id # excerpts[1].buffer_id

\* ---- C8 ----
\* C8: a call whose retained ranges all lie inside existing excerpts of their
\* buffers leaves the excerpts (keys and flags) and the text as a sync alone
\* leaves them.
InsertInsideChangesNothing ==
    status = "ok" =>
        \A b \in Singles :
            (Retained(b) # {} /\ \A x \in Retained(b) :
                \E r \in Ranges(excerpts, x[1]) : r[1] <= x[2] /\ x[3] <= r[2]) =>
                LET m0 == sync(Engine, docs)
                    m == insert_excerpts(Engine, b, docs)
                IN m0.status = "ok" =>
                      /\ m.status = "ok"
                      /\ StripAll(m.excerpts) = StripAll(m0.excerpts)
                      /\ text(m) = text(m0)

\* ---- C9 ----
\* C9: a range that shares an anchor with two or more excerpts of its buffer
\* replaces them by one excerpt from the least start to the greatest end of
\* the range and of those excerpts; the other excerpts stay, and the text is
\* the reference text, without a separator inside the merged excerpt.
BridgingMerges ==
    status = "ok" =>
        \A x \in Valid :
            LET d == x[1]
                bridged == {r \in Ranges(excerpts, d) : Touching(x, r)}
                lo == Least({x[2]} \cup {r[1] : r \in bridged})
                hi == Greatest({x[3]} \cup {r[2] : r \in bridged})
                m == insert_excerpts(Engine, {x}, docs)
            IN Cardinality(bridged) >= 2 =>
                  /\ m.status = "ok"
                  /\ Ranges(m.excerpts, d) = (Ranges(excerpts, d) \ bridged) \cup {<<lo, hi>>}
                  /\ Len(m.excerpts) = Len(excerpts) - Cardinality(bridged) + 1
                  /\ text(m) = expected_text(inserted \cup {x}, docs)

\* Three excerpts of one buffer, and a range from the first to the last, over
\* the one in between, that leaves a single excerpt.
ThreeExcerptsBridged ==
    /\ status = "ok"
    /\ \E x \in Valid :
          /\ Cardinality({r \in Ranges(excerpts, x[1]) : Touching(x, r)}) = 3
          /\ \E r \in Ranges(excerpts, x[1]) : x[2] < r[1] /\ r[2] < x[3]
          /\ Cardinality(Ranges(insert_excerpts(Engine, {x}, docs).excerpts, x[1])) = 1

Discarded == {x \in Pairs : anchor_cmp(x[2], x[3]) >= 0}

\* C11: insert_excerpts drops every pair whose start is at or after its end in
\* the buffer's anchor order and fails on none of them: a call with only such
\* pairs does what a sync alone does (same excerpts, snapshots, text, outcome),
\* and a call with such a pair and a valid one does what the call with the
\* valid pair alone does.
DiscardsEmptyAndInverted ==
    status = "ok" =>
        /\ \A b \in Batches :
              b \subseteq Discarded => insert_excerpts(Engine, b, docs) = sync(Engine, docs)
        /\ \A x \in Discarded, y \in Valid :
              insert_excerpts(Engine, {x, y}, docs) = insert_excerpts(Engine, {y}, docs)

\* Excerpts exist; a call with an inverted pair of one buffer and a valid pair
\* of the other adds the valid pair as an excerpt, and the call with the
\* inverted pair alone leaves the excerpts as they are.
ValidPairOfMixedBatchInserted ==
    /\ status = "ok"
    /\ excerpts # <<>>
    /\ \E x \in Discarded, y \in Valid :
          LET m == insert_excerpts(Engine, {x, y}, docs)
          IN /\ x[2] > x[3]
             /\ x[1] # y[1]
             /\ m.status = "ok"
             /\ Len(m.excerpts) = Len(excerpts) + 1
             /\ <<y[2], y[3]>> \in Ranges(m.excerpts, y[1])
             /\ insert_excerpts(Engine, {x}, docs).excerpts = excerpts
             /\ text(insert_excerpts(Engine, {x}, docs)) = text(Engine)

\* ---- C12 ----
\* C12: in every state, also after buffers were edited and the engine has
\* synchronized, len() is the length of text().
LenIsTextLength ==
    status = "ok" => len(Engine) = Len(text(Engine))

\* ---- C13 ----
\* What the composed text is to be: for each excerpt in tree order, a separator
\* when its touches_previous is false and its range is not zero-length on the
\* cached snapshot of its buffer, then the text of the range on that snapshot.
RECURSIVE Concatenated(_, _, _)
Concatenated(tree, snapshots, i) ==
    IF i > Len(tree) THEN <<>>
    ELSE (IF /\ ~tree[i].touches_previous
             /\ ~range_is_empty(tree[i].start, tree[i].end, snapshots[tree[i].buffer_id])
          THEN <<0>> ELSE <<>>)
         \o text_for_range(tree[i].buffer_id, tree[i].start, tree[i].end,
                           snapshots[tree[i].buffer_id])
         \o Concatenated(tree, snapshots, i + 1)

\* C13: text() is the concatenation, in tree order, of the excerpts' texts on
\* the cached snapshots, with one separator before exactly the excerpts whose
\* touches_previous is false and whose range is not empty; an excerpt with an
\* empty range adds neither text nor separator.
TextIsConcatenation ==
    status = "ok" => text(Engine) = Concatenated(excerpts, buffer_snapshots, 1)

SnapshotSynchronizes ==
    status = "ok" =>
        LET m == sync(Engine, docs)
            view == clone(m)
        IN /\ Cardinality(PendingRenames) <= 1 => m.status = "ok"
           /\ m.status = "ok" =>
                 /\ \A i \in 1..Len(view.excerpts) :
                       view.excerpts[i].path = docs[view.excerpts[i].buffer_id].path
                 /\ DOMAIN view.buffer_snapshots = buffers
                 /\ \A d \in buffers : view.buffer_snapshots[d] = docs[d]

\* A buffer with excerpts was renamed and a buffer with excerpts was edited
\* since the last sync, and snapshot() returns.
SnapshotAfterRenameAndEdit ==
    /\ status = "ok"
    /\ \E d \in buffers :
          /\ buffer_snapshots[d].path # docs[d].path
          /\ Ranges(excerpts, d) # {}
    /\ \E d \in buffers :
          /\ buffer_snapshots[d].cells # docs[d].cells
          /\ Ranges(excerpts, d) # {}
    /\ sync(Engine, docs).status = "ok"
    /\ sync(Engine, docs).excerpts # excerpts

\* ---- C16 ----
\* The excerpts of the tree that had content at the last sync and whose range
\* is zero-length in the buffers as they are now.
Emptied == {i \in 1..Len(excerpts) :
               /\ ~range_is_empty(excerpts[i].start, excerpts[i].end,
                                  buffer_snapshots[excerpts[i].buffer_id])
               /\ range_is_empty(excerpts[i].start, excerpts[i].end,
                                 docs[excerpts[i].buffer_id])}

\* C16: when edits have deleted the whole content of an excerpt, the next sync
\* takes the excerpt out of the tree: the tree it leaves has one excerpt less
\* for each such excerpt and none with the range of one of them.
EmptiedExcerptsRemoved ==
    status = "ok" =>
        LET m == sync(Engine, docs)
        IN m.status = "ok" =>
              /\ Len(m.excerpts) = Len(excerpts) - Cardinality(Emptied)
              /\ \A i \in Emptied :
                    <<excerpts[i].start, excerpts[i].end>>
                        \notin Ranges(m.excerpts, excerpts[i].buffer_id)

\* ---- C17 ----
\* The excerpts whose content has changed since the last sync and is not
\* wholly deleted.
PartlyEdited == {i \in 1..Len(excerpts) :
                    /\ text_for_range(excerpts[i].buffer_id, excerpts[i].start, excerpts[i].end,
                                      buffer_snapshots[excerpts[i].buffer_id])
                         # text_for_range(excerpts[i].buffer_id, excerpts[i].start,
                                          excerpts[i].end, docs[excerpts[i].buffer_id])
                    /\ ~range_is_empty(excerpts[i].start, excerpts[i].end,
                                       docs[excerpts[i].buffer_id])}

\* The sync of the edits keeps every excerpt where and what it is, and shows
\* the new content of the edited ones.
EditedExcerptsKept(m) ==
    /\ Len(m.excerpts) = Len(excerpts)
    /\ \A i \in PartlyEdited :
          /\ KeyOf(m.excerpts[i]) = KeyOf(excerpts[i])
          /\ text_for_range(m.excerpts[i].buffer_id, m.excerpts[i].start, m.excerpts[i].end,
                            m.buffer_snapshots[m.excerpts[i].buffer_id])
               = text_for_range(excerpts[i].buffer_id, excerpts[i].start, excerpts[i].end,
                                docs[excerpts[i].buffer_id])

\* C17: when a buffer was edited inside an excerpt that keeps some content (no
\* excerpt is emptied, no buffer renamed), the sync leaves the excerpt in the
\* tree with its key and the number of excerpts as it was, the excerpt's text
\* is the new content of its range, and the summaries give the new lengths:
\* the excerpt's and the tree's, which len() returns.
EditedExcerptsUpdated ==
    status = "ok" =>
        LET m == sync(Engine, docs)
        IN (m.status = "ok" /\ PartlyEdited # {} /\ Emptied = {} /\ PendingRenames = {}) =>
              /\ EditedExcerptsKept(m)
              /\ \A i \in PartlyEdited :
                    m.excerpts[i].summary_len = summary_len(m.excerpts[i], m.buffer_snapshots)
              /\ len(m) = Len(text(m))

\* ---- C18 ----
\* The edits since the last sync, and whether every one of them is of a
\* character outside every excerpt of its buffer.
PendingEdits == edits_of(buffer_snapshots, docs)

Inside(x, e) == e.buffer_id = x[2] /\ e.start <= 2 * x[3] - 1 /\ 2 * x[3] <= e.end

AllOutside == \A x \in PendingEdits : \A i \in 1..Len(excerpts) : ~Inside(x, excerpts[i])

\* C18: when the buffers were only edited since the last sync, and only
\* outside every excerpt, the sync leaves the excerpts with their keys and
\* flags, text() and len() as they were before the edits.
OutsideEditsChangeNothing ==
    (status = "ok" /\ PendingEdits # {} /\ AllOutside /\ PendingRenames = {}) =>
        LET m == sync(Engine, docs)
        IN /\ m.status = "ok"
           /\ StripAll(m.excerpts) = StripAll(excerpts)
           /\ text(m) = text(Engine)
           /\ len(m) = len(Engine)

\* A buffer has two excerpts with text and a character of it outside both has
\* been deleted since the last sync.
EditedBesideExcerpts ==
    /\ status = "ok"
    /\ PendingRenames = {}
    /\ AllOutside
    /\ \E x \in PendingEdits : Cardinality(Ranges(excerpts, x[2])) >= 2
    /\ Len(text(Engine)) >= 3
    /\ text(sync(Engine, docs)) = text(Engine)

\* ---- C19 ----
\* The excerpt before excerpt i is of the same buffer and ends at the offset
\* where excerpt i starts, on the cached snapshot of the buffer.
StartsWherePreviousEnds(tree, snapshots, i) ==
    /\ i > 1
    /\ tree[i - 1].buffer_id = tree[i].buffer_id
    /\ to_offset(tree[i - 1].end, snapshots[tree[i].buffer_id])
         = to_offset(tree[i].start, snapshots[tree[i].buffer_id])

\* C19: in every state (after inserts, renames, and edits followed by a sync)
\* the touches_previous flag of an excerpt is true exactly when the excerpt
\* before it in the tree is of the same buffer and ends at the offset where
\* this one starts on the buffer's current snapshot.
TouchesPreviousExact ==
    status = "ok" =>
        \A i \in 1..Len(excerpts) :
            excerpts[i].touches_previous
                <=> StartsWherePreviousEnds(excerpts, buffer_snapshots, i)

\* ---- C20 ----
\* C20: in every state (also after an excerpt was extended by a merge, and
\* after a buffer was edited and synchronized) the empty flag of an excerpt is
\* true exactly when its range is zero-length on the cached snapshot of its
\* buffer.
EmptyFlagExact ==
    status = "ok" =>
        \A i \in 1..Len(excerpts) :
            excerpts[i].empty
                <=> range_is_empty(excerpts[i].start, excerpts[i].end,
                                   buffer_snapshots[excerpts[i].buffer_id])

\* ---- C21 ----
\* Two valid pairs of one buffer that touch without sharing an anchor: the
\* first ends before the second starts, at the same offset of the buffer.
TouchingPairs ==
    {p \in Valid \X Valid :
        /\ p[1][1] = p[2][1]
        /\ anchor_cmp(p[1][3], p[2][2]) < 0
        /\ to_offset(p[1][3], docs[p[1][1]]) = to_offset(p[2][2], docs[p[1][1]])}

\* Excerpt e is of buffer d and anchor a is in its range.
Holds(e, d, a) == e.buffer_id = d /\ e.start <= a /\ a <= e.end

\* m has an excerpt that holds the end of x and, not before it, one that holds
\* the start of y; when the second is the very next excerpt it has
\* touches_previous set and shows no separator.
Joined(m, x, y) ==
    /\ \E i \in 1..Len(m.excerpts), j \in 1..Len(m.excerpts) :
          /\ i <= j
          /\ Holds(m.excerpts[i], x[1], x[3])
          /\ Holds(m.excerpts[j], x[1], y[2])
    /\ \A i \in 1..(Len(m.excerpts) - 1) :
          (Holds(m.excerpts[i], x[1], x[3]) /\ Holds(m.excerpts[i + 1], x[1], y[2]))
              => m.excerpts[i + 1].touches_previous /\ ~show_header(m.excerpts[i + 1])

\* C21: when two ranges of one buffer touch without being merged, the excerpt
\* of the later one has touches_previous set and no separator before it,
\* whether the earlier range was inserted first (the flag is set on push) or
\* the later one (the following excerpt is pushed again with the flag set).
TouchingHasNoSeparator ==
    status = "ok" =>
        \A p \in TouchingPairs :
            LET earlier == insert_excerpts(Engine, {p[1]}, docs)
                later == insert_excerpts(Engine, {p[2]}, docs)
                pushed == insert_excerpts(earlier, {p[2]}, docs)
                stitched == insert_excerpts(later, {p[1]}, docs)
            IN /\ earlier.status = "ok" => pushed.status = "ok" /\ Joined(pushed, p[1], p[2])
               /\ later.status = "ok" => stitched.status = "ok" /\ Joined(stitched, p[1], p[2])

\* The later range is an excerpt that shows its separator; inserting the
\* earlier one leaves two excerpts without a separator between them.
StitchedAfterwards ==
    /\ status = "ok"
    /\ \E p \in TouchingPairs :
          /\ \E i \in 1..Len(excerpts) :
                /\ excerpts[i].buffer_id = p[2][1]
                /\ excerpts[i].start = p[2][2]
                /\ show_header(excerpts[i])
          /\ Ranges(excerpts, p[1][1]) = {<<p[2][2], p[2][3]>>}
          /\ LET m == insert_excerpts(Engine, {p[1]}, docs)
             IN /\ m.status = "ok"
                /\ Cardinality(Ranges(m.excerpts, p[1][1])) = 2
                /\ \E i \in 2..Len(m.excerpts) :
                      /\ m.excerpts[i].start = p[2][2]
                      /\ m.excerpts[i - 1].end = p[1][3]
                      /\ m.excerpts[i].touches_previous

\* ---- C22 ----
\* C22: a sync that finds no buffer renamed or edited since the last sync
\* leaves the excerpts, the cached buffer snapshots and the text as they are;
\* so does a second sync, or snapshot(), right after a sync that returned.
SyncIdempotent ==
    status = "ok" =>
        LET m == sync(Engine, docs)
        IN /\ (PendingRenames = {} /\ PendingEdits = {}) =>
                 /\ m = Engine
                 /\ text(m) = text(Engine)
           /\ m.status = "ok" =>
                 /\ sync(m, docs) = m
                 /\ text(sync(m, docs)) = text(m)

\* A sync that moves the excerpts of a renamed buffer and stores an edited
\* snapshot, and a second sync that changes nothing.
SecondSyncChangesNothing ==
    /\ status = "ok"
    /\ PendingRenames # {}
    /\ PendingEdits # {}
    /\ LET m == sync(Engine, docs)
       IN /\ m.status = "ok"
          /\ m.excerpts # excerpts
          /\ m.buffer_snapshots # buffer_snapshots
          /\ Len(m.excerpts) >= 2
          /\ sync(m, docs) = m

\* ---- C23 ----
\* The places of the excerpts of buffer d in the tree, and whether they are
\* one run without an excerpt of another buffer in between.
Places(tree, d) == {i \in 1..Len(tree) : tree[i].buffer_id = d}

Contiguous(tree, d) ==
    \A i \in Places(tree, d), j \in Places(tree, d) :
        \A k \in i..j : tree[k].buffer_id = d

\* C23: insert_excerpts synchronizes before it keys and places the new ranges:
\* a range inserted for a buffer that was renamed since the last sync ends up
\* in an excerpt under the buffer's new path, in one run with all the other
\* excerpts of the buffer, which carry the new path as well; and in no state
\* do two excerpts of one buffer carry different paths.
InsertAfterRenameUsesNewPath ==
    /\ \A i \in 1..Len(excerpts), j \in 1..Len(excerpts) :
          excerpts[i].buffer_id = excerpts[j].buffer_id => excerpts[i].path = excerpts[j].path
    /\ status = "ok" =>
          \A x \in Valid :
              x[1] \in PendingRenames =>
                  LET m == insert_excerpts(Engine, {x}, docs)
                  IN m.status = "ok" =>
                        /\ \A i \in Places(m.excerpts, x[1]) :
                              m.excerpts[i].path = docs[x[1]].path
                        /\ \E r \in Ranges(m.excerpts, x[1]) : r[1] <= x[2] /\ x[3] <= r[2]
                        /\ Cardinality(Places(m.excerpts, x[1]))
                             >= Cardinality(Places(excerpts, x[1]))
                               - Cardinality({r \in Ranges(excerpts, x[1]) : Touching(x, r)})
                        /\ Contiguous(m.excerpts, x[1])

\* A renamed buffer has an excerpt under its old path, before those of the
\* other buffer; a range apart from that excerpt is inserted and both excerpts
\* are under the new path, after the other buffer's.
InsertedUnderNewPath ==
    /\ status = "ok"
    /\ \E x \in Valid :
          /\ x[1] \in PendingRenames
          /\ Ranges(excerpts, x[1]) # {}
          /\ excerpts[1].buffer_id = x[1]
          /\ \A r \in Ranges(excerpts, x[1]) : ~Touching(x, r)
          /\ LET m == insert_excerpts(Engine, {x}, docs)
             IN /\ m.status = "ok"
                /\ Cardinality(Places(m.excerpts, x[1])) = Cardinality(Places(excerpts, x[1])) + 1
                /\ m.excerpts[1].buffer_id # x[1]
                /\ \A i \in Places(m.excerpts, x[1]) : m.excerpts[i].path = docs[x[1]].path

\* ---- C24 ----
\* C24: in every state the buffer of every excerpt has an entry in
\* buffer_snapshots and in buffers, and every buffer with a cached snapshot
\* has a handle, so that no lookup of sync, apply_renames, check_invariants,
\* text() or Excerpt::summary misses its entry.
EveryExcerptRegistered ==
    /\ \A i \in 1..Len(excerpts) :
          /\ excerpts[i].buffer_id \in DOMAIN buffer_snapshots
          /\ excerpts[i].buffer_id \in buffers
    /\ DOMAIN buffer_snapshots \subseteq buffers

\* Every buffer has excerpts, some of them moved by a rename, and the first
\* buffer in the tree is not the first one registered.
AllBuffersInTree ==
    /\ status = "ok"
    /\ \A d \in Docs : Places(excerpts, d) # {}
    /\ \E d \in Docs : buffer_snapshots[d].path # InitPath(d)
    /\ \E d \in Docs : buffer_snapshots[d].cells # InitCells(d)

\* ---- C25 ----
\* C25: the key (old path, buffer, MIN..MAX) that apply_renames seeks with
\* Bias::Left leaves the cursor at or before the first excerpt of the renamed
\* buffer, also when that excerpt starts at MIN or is MIN..MAX itself; a sync
\* that finds the one renamed buffer moves every excerpt of it, whatever its
\* range, under the new path and leaves none under the old one.
RenameLeavesNoneBehind ==
    status = "ok" =>
        \A d \in PendingRenames :
            Places(excerpts, d) # {} =>
                LET target == Key(buffer_snapshots[d].path, d, min_anchor, max_anchor(d))
                    m == sync(Engine, docs)
                IN /\ seek_forward(excerpts, 0, target, "Left") < Least(Places(excerpts, d))
                   /\ PendingRenames = {d} =>
                         /\ m.status = "ok"
                         /\ Ranges(m.excerpts, d) = Ranges(excerpts, d)
                         /\ Cardinality(Places(m.excerpts, d)) = Cardinality(Places(excerpts, d))
                         /\ \A i \in Places(m.excerpts, d) :
                               /\ m.excerpts[i].path = docs[d].path
                               /\ m.excerpts[i].path # buffer_snapshots[d].path

\* The renamed buffer has the excerpt MIN..MAX, which is the key that is
\* sought, after the excerpts of the other buffer, and the sync moves it.
WholeBufferExcerptMoved ==
    /\ status = "ok"
    /\ \E d \in PendingRenames :
          /\ PendingRenames = {d}
          /\ Ranges(excerpts, d) = {<<min_anchor, max_anchor(d)>>}
          /\ Len(excerpts) >= 2
          /\ LET m == sync(Engine, docs)
             IN /\ m.status = "ok"
                /\ m.excerpts # excerpts
                /\ \A i \in Places(m.excerpts, d) : m.excerpts[i].path = docs[d].path

\* ---- C26 ----
\* C26: in every state the excerpts of one buffer are one run of the tree, and
\* the ranges of a buffer's excerpts are the ranges that were inserted for
\* that buffer, merged among themselves: no excerpt holds a range of two
\* buffers, also when the buffers have one path and ranges of the same
\* numbers.
BuffersKeptApart ==
    /\ \A d \in Docs : Contiguous(excerpts, d)
    /\ status = "ok" =>
          \A d \in Docs :
              Ranges(excerpts, d) = {<<x[2], x[3]>> : x \in {y \in inserted : y[1] = d}}

\* The two buffers are under one path, each with an excerpt, and the ranges
\* of the two excerpts overlap as numbers.
SamePathBuffersApart ==
    /\ status = "ok"
    /\ Len(excerpts) >= 2
    /\ \A d \in Docs : Places(excerpts, d) # {}
    /\ \A i \in 1..Len(excerpts) : excerpts[i].path = excerpts[1].path
    /\ \E r \in Ranges(excerpts, 1), q \in Ranges(excerpts, 2) : r[1] < q[2] /\ q[1] < r[2]

\* ---- C27 ----
\* The excerpts of buffer d in tree order: ranges and flags, without the path.
Unkeyed(tree, d) == WithPath(OfDoc(tree, d), 0)

\* C27: an insert_excerpts call with a range of one buffer leaves the excerpts
\* of every other buffer with their ranges, their touches_previous and empty
\* flags and their order.
InsertLeavesOtherBuffers ==
    status = "ok" =>
        \A x \in Valid :
            LET m == insert_excerpts(Engine, {x}, docs)
            IN m.status = "ok" =>
                  \A o \in Docs \ {x[1]} : Unkeyed(m.excerpts, o) = Unkeyed(excerpts, o)

\* The other buffer has two excerpts, the second with touches_previous set;
\* the call adds an excerpt to those of its own buffer.
InsertBesideOtherBuffer ==
    /\ status = "ok"
    /\ \E x \in Valid :
          LET m == insert_excerpts(Engine, {x}, docs)
          IN /\ m.status = "ok"
             /\ Places(excerpts, x[1]) # {}
             /\ Cardinality(Places(m.excerpts, x[1])) > Cardinality(Places(excerpts, x[1]))
             /\ \E o \in Docs \ {x[1]} :
                   /\ Cardinality(Places(excerpts, o)) >= 2
                   /\ \E i \in Places(excerpts, o) : excerpts[i].touches_previous
                   /\ Unkeyed(m.excerpts, o) = Unkeyed(excerpts, o)

\* ---- C28 ----
\* C28: buffers and buffer_snapshots have one entry per registered buffer; an
\* insert_excerpts call registers exactly the buffers of the pairs it retains
\* that were not registered, storing their snapshot at the call, and removes
\* none; a buffer whose pairs are all dropped as empty or inverted is not
\* registered, and a sync registers and removes nothing.
RegisteredOnFirstRetainedRange ==
    /\ DOMAIN buffer_snapshots = buffers
    /\ status = "ok" =>
          /\ sync(Engine, docs).buffers = buffers
          /\ DOMAIN sync(Engine, docs).buffer_snapshots = buffers
          /\ \A b \in Batches :
                LET m == insert_excerpts(Engine, b, docs)
                IN /\ m.buffers = buffers \cup {x[1] : x \in {y \in b : y[2] < y[3]}}
                   /\ DOMAIN m.buffer_snapshots = m.buffers
                   /\ \A d \in m.buffers : m.buffer_snapshots[d] = docs[d]

\* One buffer is registered; a call with only an inverted pair of the other
\* buffer registers nothing, a call with a valid pair of it registers it.
SecondBufferRegistered ==
    /\ status = "ok"
    /\ Cardinality(buffers) = 1
    /\ excerpts # <<>>
    /\ \E x \in Discarded, y \in Valid :
          /\ x[1] \notin buffers
          /\ y[1] \notin buffers
          /\ insert_excerpts(Engine, {x}, docs).buffers = buffers
          /\ insert_excerpts(Engine, {x, y}, docs).buffers = buffers \cup {y[1]}
          /\ y[1] \in DOMAIN insert_excerpts(Engine, {x, y}, docs).buffer_snapshots

KeyOrderTotal ==
    LET a == compared.a
        b == compared.b
        c == compared.c
    IN /\ compared.aa = 0
       /\ compared.ab \in {-1, 0, 1}
       /\ compared.ab = -compared.ba
       /\ compared.ab = 0 <=> a = b
       /\ (compared.ab <= 0 /\ compared.bc <= 0) => compared.ac <= 0
       /\ a.path < b.path => compared.ab = -1
       /\ (a.path = 0 /\ b.path # 0) => compared.ab = -1
       /\ (a.path = b.path /\ a.buffer_id < b.buffer_id) => compared.ab = -1
       /\ (a.path = b.path /\ a.buffer_id = b.buffer_id) =>
             compared.ab = range_cmp(a.start, a.end, b.start, b.end)
       /\ (a.path # b.path \/ a.buffer_id # b.buffer_id) =>
             /\ key_cmp(Key(a.path, a.buffer_id, c.start, c.end), b) = compared.ab
             /\ key_cmp(a, Key(b.path, b.buffer_id, c.start, c.end)) = compared.ab

\* An untitled buffer with the higher id and the later range is compared with
\* a buffer with a path, and comes first.
UntitledComparedFirst ==
    /\ compared.a.path = 0
    /\ compared.b.path # 0
    /\ compared.a.buffer_id > compared.b.buffer_id
    /\ compared.a.start > compared.b.start
    /\ compared.ab = -1
    /\ compared.bc = 0

\* ---- C31 ----
\* The batch as the Vec the call is handed: filter_map keeps the order of the
\* retained pairs.
RECURSIVE filter_map(_, _)
filter_map(pairs, ds) ==
    IF pairs = <<>> THEN <<>>
    ELSE (IF Retained({Head(pairs)}) # {} THEN <<NewExcerpt(Head(pairs), ds)>> ELSE <<>>)
         \o filter_map(Tail(pairs), ds)

\* sort_unstable_by on a Vec: an element goes before the first element whose
\* key is not below its own.
RECURSIVE sort_unstable_by(_)
sort_unstable_by(v) ==
    IF v = <<>> THEN <<>>
    ELSE LET rest == sort_unstable_by(Tail(v))
             before == SelectSeq(rest, LAMBDA y : key_cmp(y.key, Head(v).key) < 0)
             after == SelectSeq(rest, LAMBDA y : key_cmp(y.key, Head(v).key) >= 0)
         IN before \o <<Head(v)>> \o after

\* new_excerpts as the rebuild loop receives it.
new_excerpts(pairs, ds) == dedup_by(<<>>, sort_unstable_by(filter_map(pairs, ds)))

\* C31: the sorted, merged new excerpts of a Vec of two pairs are those of the
\* Vec in the other order, which are those the call is modelled with, and when
\* the call with both pairs and the calls with one pair after the other return,
\* they leave the same excerpts with the same flags and the same text.
BatchOrderAndSplitIrrelevant ==
    status = "ok" =>
        \A x \in Pairs :
            LET first == insert_excerpts(Engine, {x}, docs)
                split(y, both, m) ==
                    (both.status = "ok" /\ m.status = "ok") =>
                        /\ StripAll(m.excerpts) = StripAll(both.excerpts)
                        /\ text(m) = text(both)
                        /\ m.buffers = both.buffers
            IN \A y \in Pairs :
                  /\ new_excerpts(<<x, y>>, docs) = new_excerpts(<<y, x>>, docs)
                  /\ new_excerpts(<<x, y>>, docs)
                       = dedup_by(<<>>,
                                  sort_by_key({NewExcerpt(z, docs) : z \in Retained({x, y})}))
                  /\ first.status = "ok" =>
                        split(y, insert_excerpts(Engine, {x, y}, docs),
                              insert_excerpts(first, {y}, docs))

\* ---- C32 ----
\* The phases of one sync: the cached snapshots after the loop over the
\* registered buffers, the edits the loop queued, the tree apply_renames leaves
\* and the tree apply_edits makes of it.
sync_phases(m, ds) ==
    LET snapshots == [d \in DOMAIN m.buffer_snapshots |-> ds[d]]
        edited(queued, r) ==
            [buffer_snapshots |-> snapshots, edits |-> queued, renamed |-> r,
             edited |-> apply_edits(r.tree, queued)]
    IN edited(edits_of(m.buffer_snapshots, ds),
              apply_renames(m.excerpts, snapshots, renames_of(m.buffer_snapshots, ds, 1)))

\* C32: in a sync whose renames are applied without a failed assertion, the
\* cached snapshot of every registered buffer is the buffer's current one
\* before the renames are applied (the summaries of the excerpts that are
\* moved are computed on it), the tree that edit reconciliation receives has
\* every excerpt under its buffer's current path, which is the path every
\* queued edit is tagged with, and the sync leaves the tree and the snapshots
\* of the last phase.
SyncPhasesInOrder ==
    status = "ok" =>
        LET p == sync_phases(Engine, docs)
            tree == p.renamed.tree
        IN p.renamed.ok =>
              /\ \A d \in buffers : p.buffer_snapshots[d] = docs[d]
              /\ \A i \in 1..Len(tree) : tree[i].path = docs[tree[i].buffer_id].path
              /\ \A x \in p.edits : \A i \in 1..Len(tree) :
                    tree[i].buffer_id = x[2] => tree[i].path = x[1]
              /\ \A i \in 1..Len(tree) :
                    tree[i].path # buffer_snapshots[tree[i].buffer_id].path
                        => tree[i].summary_len = summary_len(tree[i], p.buffer_snapshots)
              /\ sync(Engine, docs).excerpts = p.edited
              /\ sync(Engine, docs).buffer_snapshots = p.buffer_snapshots

\* A sync has run over a buffer that had been renamed and edited: its excerpt
\* is under the new path and its cached length is the one after the edit.
RenamedAndEditedInOneSync ==
    /\ status = "ok"
    /\ nops = 2
    /\ PendingEdits = {}
    /\ \E i \in 1..Len(excerpts) :
          LET e == excerpts[i]
          IN /\ e.path # InitPath(e.buffer_id)
             /\ e.path = docs[e.buffer_id].path
             /\ buffer_snapshots[e.buffer_id] = docs[e.buffer_id]
             /\ docs[e.buffer_id].cells # InitCells(e.buffer_id)
             /\ e.summary_len = summary_len(e, buffer_snapshots)
             /\ e.summary_len
                  < summary_len(e, [d \in Docs |-> [path |-> 0, cells |-> InitCells(d)]])

\* ---- C33 ----
\* A lookup that finds a snapshot for every buffer id.
always_some(snapshots, buffer_id) == TRUE

\* TreeMap::get(&buffer_id).is_some()
is_some(snapshots, buffer_id) == buffer_id \in DOMAIN snapshots

\* Excerpt::summary: get(..).expect("buffer snapshot not found").
summary_outcome(e, snapshots) ==
    IF is_some(snapshots, e.buffer_id) THEN "ok" ELSE "buffer snapshot not found"

\* push_new_excerpt: snapshots.get(&new_key.buffer_id).unwrap() comes first.
push_outcome(new_key, snapshots) ==
    IF is_some(snapshots, new_key.buffer_id) THEN "ok" ELSE "unwrap on None"

\* SeekTarget::cmp: Greater against None, get(&self.buffer_id).unwrap() against
\* a key.
seek_target_outcome(target, pos, snapshots) ==
    IF pos = 0 THEN "ok"
    ELSE IF is_some(snapshots, target.buffer_id) THEN "ok" ELSE "unwrap on None"

\* apply_renames: buffer_snapshots.get(&buffer_id).unwrap(), first in both loops.
rename_outcome(rename, snapshots) ==
    IF is_some(snapshots, rename.buffer_id) THEN "ok" ELSE "unwrap on None"

\* One pass of the rebuild loop with the cursor at pos: the comparison with
\* cursor.start(), then push_new_excerpt.
pass_outcome(new_key, pos, snapshots) ==
    IF seek_target_outcome(new_key, pos, snapshots) # "ok"
    THEN seek_target_outcome(new_key, pos, snapshots)
    ELSE push_outcome(new_key, snapshots)

TreeReplacedWhole ==
    [][status' = "ok" =>
          /\ \A d \in Docs : Ranges(excerpts, d) # {} => Ranges(excerpts', d) # {}
          /\ \A i \in 1..Len(excerpts') :
                excerpts'[i].path = buffer_snapshots'[excerpts'[i].buffer_id].path
          /\ (ninserts' = ninserts /\ edits_of(buffer_snapshots, docs) = {}) =>
                /\ Len(excerpts') = Len(excerpts)
                /\ \A d \in Docs : Ranges(excerpts', d) = Ranges(excerpts, d)]_vars

\* A sync has applied a rename and nothing was ever edited: both buffers have
\* their excerpts, one per inserted range, and the renamed buffer has its own
\* under the new path.
RenamedTreeComplete ==
    /\ status = "ok"
    /\ NoEdits
    /\ Len(excerpts) = 3
    /\ Cardinality(inserted) = 3
    /\ \A d \in Docs : Ranges(excerpts, d) # {}
    /\ \E d \in Docs :
          /\ Cardinality(Ranges(excerpts, d)) = 2
          /\ docs[d].path # InitPath(d)
          /\ \A i \in 1..Len(excerpts) :
                excerpts[i].buffer_id = d => excerpts[i].path = docs[d].path

\* ---- C35 ----
\* The summary an excerpt with a key has: Item::summary gives Some(key).
OfItem(s) == s.max_key # None

\* C35: add_summary is associative, and the summary of a run of one, two or
\* three excerpts in ascending key order has the key of the last excerpt of
\* the run, which is the greatest of the run, as max_key, and the sum of the
\* excerpts' text lengths as text length.
SummaryOfRun ==
    LET a == summed.a
        b == summed.b
        c == summed.c
        below(s, t) == key_cmp(s.max_key[1], t.max_key[1]) < 0
    IN /\ summed.ab_c = summed.a_bc
       /\ OfItem(a) => summed.run1 = ExcerptSummary(a.max_key, a.len)
       /\ (OfItem(a) /\ OfItem(b) /\ below(a, b)) =>
             /\ summed.run2 = ExcerptSummary(b.max_key, a.len + b.len)
             /\ key_cmp(summed.run2.max_key[1], a.max_key[1]) > 0
       /\ (OfItem(a) /\ OfItem(b) /\ OfItem(c) /\ below(a, b) /\ below(b, c)) =>
             /\ summed.run3 = ExcerptSummary(c.max_key, a.len + b.len + c.len)
             /\ key_cmp(summed.run3.max_key[1], a.max_key[1]) > 0
             /\ key_cmp(summed.run3.max_key[1], b.max_key[1]) > 0

\* The summaries of three excerpts with text, of two buffers and in ascending
\* key order, have been added.
ThreeExcerptsSummed ==
    /\ OfItem(summed.a) /\ OfItem(summed.b) /\ OfItem(summed.c)
    /\ key_cmp(summed.a.max_key[1], summed.b.max_key[1]) < 0
    /\ key_cmp(summed.b.max_key[1], summed.c.max_key[1]) < 0
    /\ summed.a.max_key[1].buffer_id # summed.c.max_key[1].buffer_id
    /\ summed.a.len = 1 /\ summed.b.len = 2 /\ summed.c.len = 1
    /\ summed.run3 = ExcerptSummary(summed.c.max_key, 4)
    /\ summed.ab_c = summed.run3

\* ---- C36 ----
\* C36: zero is an identity of add_summary on both sides: a summary to which
\* zero is added, and zero to which the summary is added, are the summary, and
\* so it is for the dimension Option<ExcerptKey> and the zero of the dimension.
ZeroIsIdentity ==
    /\ summed.a_zero = summed.a
    /\ summed.zero_a = summed.a
    /\ summed.key_a_zero = summed.a.max_key
    /\ summed.key_zero_a = summed.a.max_key

\* ---- C37 ----
\* The edits Vec as the loop of sync fills it: the registered buffers in the
\* order of their ids, the edits of a buffer in the order of edits_since, each
\* pushed with new_path.
RECURSIVE edits_pushed(_, _, _, _)
edits_pushed(snapshots, ds, d, c) ==
    IF d > NumDocs THEN <<>>
    ELSE IF d \notin DOMAIN snapshots \/ c > Slots(d) THEN edits_pushed(snapshots, ds, d + 1, 1)
    ELSE (IF ds[d].cells[c] # snapshots[d].cells[c] THEN <<(<<ds[d].path, d, c>>)>> ELSE <<>>)
         \o edits_pushed(snapshots, ds, d, c + 1)

\* A sort that leaves the edits as they were pushed.
edits_as_pushed(edits) == edits

\* edits.sort_by_key(|(path, buffer_id, _)| (path.clone(), *buffer_id)): a
\* stable sort, an edit goes before the first edit with a greater key.
RECURSIVE edits_sort_by_key(_)
edits_sort_by_key(edits) ==
    IF edits = <<>> THEN <<>>
    ELSE LET above(x, y) == x[1] > y[1] \/ (x[1] = y[1] /\ x[2] > y[2])
             rest == edits_sort_by_key(Tail(edits))
             before == SelectSeq(rest, LAMBDA y : above(Head(edits), y))
             after == SelectSeq(rest, LAMBDA y : ~above(Head(edits), y))
         IN before \o <<Head(edits)>> \o after

\* The edits apply_edits is called with.
edits_handed(snapshots, ds) == edits_sort_by_key(edits_pushed(snapshots, ds, 1, 1))

\* C37: the edits a sync hands to apply_edits are in ascending order of (path,
\* buffer id), no path first; every edit carries the path the buffer has now,
\* also when the buffer was renamed since the last sync; the edits are those of
\* the registered buffers, each once, those of one buffer in their order.
EditsSortedByNewPath ==
    LET handed == edits_handed(buffer_snapshots, docs)
    IN /\ \A i \in 1..Len(handed), j \in 1..Len(handed) :
             i < j =>
                \/ handed[i][1] < handed[j][1]
                \/ handed[i][1] = handed[j][1] /\ handed[i][2] < handed[j][2]
                \/ handed[i][1] = handed[j][1] /\ handed[i][2] = handed[j][2]
                     /\ handed[i][3] < handed[j][3]
       /\ \A i \in 1..Len(handed) : handed[i][1] = docs[handed[i][2]].path
       /\ {handed[i] : i \in 1..Len(handed)} = edits_of(buffer_snapshots, docs)
       /\ Len(handed) = Cardinality(edits_of(buffer_snapshots, docs))

\* Two buffers have been edited since the last sync and the buffer with the
\* lower id has the greater path: the edits are handed over in another order
\* than the one they were pushed in.
EditsOfTwoBuffersQueued ==
    /\ status = "ok"
    /\ Len(edits_handed(buffer_snapshots, docs)) = 2
    /\ edits_handed(buffer_snapshots, docs) # edits_pushed(buffer_snapshots, docs, 1, 1)
    /\ edits_handed(buffer_snapshots, docs)[1][2] = 2
    /\ edits_handed(buffer_snapshots, docs)[2][2] = 1

\* ---- C38 ----
\* The loops of a call, one pass a step.  A call is begun on an engine that is
\* running, its passes follow, and it ends by leaving the tree the whole call
\* leaves; no other call runs in between.

\* The cursor after each pass of the rebuild loop, for the passes that are made.
RECURSIVE cursors_of(_, _, _, _)
cursors_of(old, snapshots, news, c) ==
    IF news = <<>> \/ ~c.ok THEN <<>>
    ELSE LET passed(c2) == <<c2>> \o cursors_of(old, snapshots, Tail(news), c2)
         IN passed(insert_one(old, snapshots, Head(news), c))

\* new_excerpts.next(): the entries that are left after the one taken.
after_next(news) == Tail(news)

\* A cursor.next that leaves the cursor where it is.
cursor_stays(pos) == pos

\* cursor.next(): the cursor is at the following excerpt.
cursor_next(pos) == pos + 1

\* insert_excerpts up to its loop.  The sync it starts with finds no rename.
BeginInsert(batch) ==
    /\ call.op = "idle"
    /\ status = "ok"
    /\ ninserts < MaxInserts
    /\ renames_of(buffer_snapshots, docs, 1) = <<>>
    /\ LET snapshots == [d \in buffers \cup {x[1] : x \in Retained(batch)} |->
                           IF d \in buffers THEN buffer_snapshots[d] ELSE docs[d]]
           news == dedup_by(<<>>, sort_by_key({NewExcerpt(x, docs) : x \in Retained(batch)}))
       IN call' = [Idle EXCEPT
                     !.op = "insert",
                     !.batch = batch,
                     !.snapshots = snapshots,
                     !.all_news = news,
                     !.news = news,
                     !.cursors = cursors_of(excerpts, snapshots, news, Idle.c)]
    /\ UNCHANGED <<docs, buffers, buffer_snapshots, excerpts, inserted, status, ninserts, nops,
                   held, compared, summed>>

\* One pass of the rebuild loop: an entry is taken and the cursor is where the
\* pass leaves it.
Pass ==
    /\ call.op = "insert"
    /\ call.news # <<>>
    /\ call.c.ok
    /\ call' = [call EXCEPT
                  !.news = after_next(call.news),
                  !.c = Head(call.cursors),
                  !.cursors = Tail(call.cursors)]
    /\ UNCHANGED <<docs, buffers, buffer_snapshots, excerpts, inserted, status, ninserts, nops,
                   held, compared, summed>>

\* The engine after the loop: the suffix is appended, the tree assigned and
\* check_invariants run, or the assertion of the cursor has ended the call.
Rebuilt ==
    LET replaced(tree) ==
            [excerpts |-> tree, buffer_snapshots |-> call.snapshots,
             buffers |-> insert_buffers(buffers, DOMAIN call.snapshots),
             status |-> Outcome(call.c.ok, tree)]
    IN replaced(IF call.c.ok
                THEN call.c.tree \o Slice(excerpts, call.c.pos, Len(excerpts))
                ELSE excerpts)

FinishInsert ==
    /\ call.op = "insert"
    /\ call.news = <<>> \/ ~call.c.ok
    /\ Become(Rebuilt)
    /\ inserted' = LET merged == expected_excerpts(inserted \cup call.batch, docs)
                   IN {merged[i] : i \in 1..Len(merged)}
    /\ ninserts' = ninserts + 1
    /\ docs' = read(docs)
    /\ call' = Idle
    /\ UNCHANGED <<nops, held, compared, summed>>

\* sync up to the first loop of apply_renames, when a buffer was renamed.
BeginSync ==
    /\ call.op = "idle"
    /\ status = "ok"
    /\ renames_of(buffer_snapshots, docs, 1) # <<>>
    /\ call' = [Idle EXCEPT !.op = "remove", !.renames = renames_of(buffer_snapshots, docs, 1)]
    /\ UNCHANGED <<docs, buffers, buffer_snapshots, excerpts, inserted, status, ninserts, nops,
                   held, compared, summed>>

\* `for (buffer_id, old_path, new_path) in renames`: the slice to the old key.
SliceToRenamed ==
    /\ call.op = "remove"
    /\ ~call.taking
    /\ call.renames # <<>>
    /\ call.r.ok
    /\ LET rename == Head(call.renames)
           target == Key(rename.old_path, rename.buffer_id, min_anchor,
                         max_anchor(rename.buffer_id))
           pos1 == seek_forward(excerpts, call.r.pos, target, "Left")
       IN call' = IF seeks_backward(target, excerpts, call.r.pos)
                  THEN [call EXCEPT !.r.ok = FALSE]
                  ELSE [call EXCEPT
                          !.r.tree = @ \o Slice(excerpts, call.r.pos, pos1),
                          !.r.pos = pos1,
                          !.from = pos1,
                          !.taking = TRUE]
    /\ UNCHANGED <<docs, buffers, buffer_snapshots, excerpts, inserted, status, ninserts, nops,
                   held, compared, summed>>

\* `while let Some(excerpt) = cursor.item()`: an excerpt of the buffer is taken
\* and the cursor moves to the next one, or the loop is left.
TakeRenamed ==
    /\ call.op = "remove"
    /\ call.taking
    /\ LET rename == Head(call.renames)
       IN call' = IF /\ call.r.pos < Len(excerpts)
                     /\ excerpts[call.r.pos + 1].buffer_id = rename.buffer_id
                  THEN [call EXCEPT !.r.pos = cursor_next(@)]
                  ELSE [call EXCEPT
                          !.taking = FALSE,
                          !.renames = Tail(@),
                          !.r.renamed =
                              IF call.r.pos > call.from
                              THEN @ \cup {[new_path |-> rename.new_path,
                                            buffer_id |-> rename.buffer_id,
                                            items |-> rekey(Slice(excerpts, call.from, call.r.pos),
                                                            rename.new_path)]}
                              ELSE @]
    /\ UNCHANGED <<docs, buffers, buffer_snapshots, excerpts, inserted, status, ninserts, nops,
                   held, compared, summed>>

\* The first loop is left: the rest of the sync follows.
FinishSync ==
    /\ call.op = "remove"
    /\ ~call.taking
    /\ call.renames = <<>> \/ ~call.r.ok
    /\ Become(sync(Engine, docs))
    /\ docs' = read(docs)
    /\ call' = Idle
    /\ UNCHANGED <<inserted, ninserts, nops, held, compared, summed>>

\* A buffer is renamed between two calls.
RenameBetweenCalls(d, p) == call.op = "idle" /\ Rename(d, p)

\* The pairs of the calls that are followed pass by pass: the ranges from the
\* start of a character to the end of a character, and the empty range at MIN.
LoopPairs == {x \in Pairs : (x[2] % 2 = 1 /\ x[3] % 2 = 0) \/ x[3] = min_anchor}

LoopBatches == {b \in Batches : b \subseteq LoopPairs}

\* The passes of the two loops.
PassOfLoop == Pass \/ SliceToRenamed \/ TakeRenamed

NextLoops ==
    \/ \E batch \in LoopBatches : BeginInsert(batch)
    \/ Pass
    \/ FinishInsert
    \/ \E d \in Docs, p \in 1..MaxPath : RenameBetweenCalls(d, p)
    \/ BeginSync
    \/ SliceToRenamed
    \/ TakeRenamed
    \/ FinishSync

\* A loop that has begun goes on: nothing else runs while it does.
SpecLoops == Init /\ [][NextLoops]_vars /\ WF_vars(PassOfLoop)

\* No call is in a loop: none has begun, or the loop of the call is left.
LoopLeft ==
    \/ call.op = "idle"
    \/ call.op = "insert" /\ (call.news = <<>> \/ ~call.c.ok)
    \/ call.op = "remove" /\ ~call.taking /\ (call.renames = <<>> \/ ~call.r.ok)

\* What a step of a loop does to the entries left and to the cursor.
LoopAdvances ==
    /\ (call.op = "insert" /\ call'.op = "insert") =>
          /\ Len(call'.news) = Len(call.news) - 1
          /\ call'.c.pos >= call.c.pos
    /\ (call.op = "remove" /\ call'.op = "remove") =>
          /\ call'.r.pos >= call.r.pos
          /\ (call.taking /\ call'.taking) => call'.r.pos = call.r.pos + 1
          /\ (call.taking /\ ~call'.taking) => Len(call'.renames) = Len(call.renames) - 1
          /\ (~call.taking /\ ~call'.taking) => ~call'.r.ok
    /\ (call.op # "idle" /\ LoopLeft) => call'.op = "idle"

\* When a loop is left its cursor is the one the whole call has after the
\* loop, and the engine the call leaves is the one of the whole call.
LoopIsTheCall ==
    /\ (call.op = "insert" /\ (call.news = <<>> \/ ~call.c.ok)) =>
          /\ call.c = insert_loop(excerpts, call.snapshots, call.all_news, Idle.c)
          /\ Rebuilt = insert_excerpts(Engine, call.batch, docs)
    /\ (call.op = "remove" /\ ~call.taking /\ (call.renames = <<>> \/ ~call.r.ok)) =>
          call.r = remove_renamed(excerpts, renames_of(buffer_snapshots, docs, 1), Idle.r)

\* C38: insert_excerpts and sync terminate.  Every pass of the rebuild loop
\* takes one entry of the batch and leaves the cursor where it was or further
\* on; every iteration of the loop that removes the renamed excerpts moves the
\* cursor one excerpt on or leaves the loop, and every rename is taken once;
\* the cursor a loop ends with is the one of the whole call; every loop that
\* is begun is left, and the step after the loop ends the call.
CallsTerminate ==
    /\ [][LoopAdvances]_vars
    /\ []LoopIsTheCall
    /\ (call.op # "idle") ~> LoopLeft

\* The rebuild loop is in its second pass over a tree it has moved into.
SecondPassUnderWay ==
    /\ call.op = "insert"
    /\ Len(call.all_news) = 2
    /\ Len(call.news) = 1
    /\ call.c.pos > 0
    /\ Len(excerpts) >= 2
====
